---- MODULE Spec2Model ----
(***************************************************************************)
(* Model of src/src/invoice_service.py: InvoiceService.compute_total and   *)
(* the helpers it calls, as a step-by-step pipeline over one invoice.      *)
(*                                                                         *)
(* Money.  The code computes in binary floating point.  The model computes *)
(* in exact decimal fixed point with four fractional digits: a monetary    *)
(* value m is held as the integer m * Unit.  The inputs enumerated below   *)
(* have whole-unit prices, so every product with a two-digit rate is exact *)
(* (a subtotal is a multiple of Unit, a discount and a tax base a multiple *)
(* of 100, a tax an integer).  NaN, infinities and rounding drift of the   *)
(* floats are outside the model.                                           *)
(***************************************************************************)
EXTENDS Integers, Sequences, FiniteSets, TLC

VARIABLES inv, pc, exc, message, problems, subtotal, fragile_fee, shipping,
          discount, coupon_part, tax, total, clamped, warnings, prev

vars == <<inv, pc, exc, message, problems, subtotal, fragile_fee, shipping,
          discount, coupon_part, tax, total, clamped, warnings, prev>>

\* ------------------------------------------------------------------ values

\* Python's None; Optional[T] values are None or Some(v).
None == [none |-> TRUE]
Some(x) == [v |-> x]

\* One currency unit in the fixed-point representation of a float amount.
Unit == 100 * 100

\* x * (pct / 100), exact when x is a multiple of 100.
Frac(x, pct) == (x \div 100) * pct

LineItem(sku, category, unit_price, qty, fragile) ==
    [sku |-> sku, category |-> category, unit_price |-> unit_price,
     qty |-> qty, fragile |-> fragile]

Invoice(invoice_id, customer_id, country, membership, coupon, items) ==
    [invoice_id |-> invoice_id, customer_id |-> customer_id,
     country |-> country, membership |-> membership, coupon |-> coupon,
     items |-> items]

\* InvoiceService.__init__: the coupon-rate table, rates in percent.
coupon_rate == [c \in {"WELCOME10", "VIP20", "STUDENT5"} |->
                   CASE c = "WELCOME10" -> 10
                     [] c = "VIP20" -> 20
                     [] c = "STUDENT5" -> 5]

\* ------------------------------------------------------------------ strings

\* The whitespace characters the enumerated coupons use.
IsSpace(c) == c \in {" ", "\t", "\n"}

RECURSIVE LStrip(_)
LStrip(s) == IF Len(s) > 0 /\ IsSpace(SubSeq(s, 1, 1))
             THEN LStrip(SubSeq(s, 2, Len(s)))
             ELSE s

RECURSIVE RStrip(_)
RStrip(s) == IF Len(s) > 0 /\ IsSpace(SubSeq(s, Len(s), Len(s)))
             THEN RStrip(SubSeq(s, 1, Len(s) - 1))
             ELSE s

\* str.strip(): removes leading and trailing whitespace.
Strip(s) == RStrip(LStrip(s))

\* "; ".join(ps)
RECURSIVE Join(_)
Join(ps) == IF ps = <<>> THEN ""
            ELSE IF Len(ps) = 1 THEN ps[1]
            ELSE ps[1] \o "; " \o Join(Tail(ps))

\* ------------------------------------------------------------------ _validate

\* Mutant of ItemProblems: the qty check rejects zero only.
ItemProblems_QtyZeroOnly(it) ==
    (IF it.sku = "" THEN <<"Item sku is missing">> ELSE <<>>)
    \o (IF it.qty = 0 THEN <<"Invalid qty for " \o it.sku>> ELSE <<>>)
    \o (IF it.unit_price < 0 THEN <<"Invalid price for " \o it.sku>> ELSE <<>>)
    \o (IF it.category \notin {"book", "food", "electronics", "other"}
        THEN <<"Unknown category for " \o it.sku>> ELSE <<>>)

\* The four checks of one item, lines 41-48.
ItemProblems(it) ==
    (IF it.sku = "" THEN <<"Item sku is missing">> ELSE <<>>)
    \o (IF it.qty <= 0 THEN <<"Invalid qty for " \o it.sku>> ELSE <<>>)
    \o (IF it.unit_price < 0 THEN <<"Invalid price for " \o it.sku>> ELSE <<>>)
    \o (IF it.category \notin {"book", "food", "electronics", "other"}
        THEN <<"Unknown category for " \o it.sku>> ELSE <<>>)

\* for it in inv.items: ...
RECURSIVE ItemsProblems(_)
ItemsProblems(items) ==
    IF items = <<>> THEN <<>>
    ELSE ItemProblems(Head(items)) \o ItemsProblems(Tail(items))

\* The checks of the invoice's own fields, lines 34-39; `not inv.items` is
\* true of None and of the empty list.
HeaderProblems(i) ==
    (IF i.invoice_id = "" THEN <<"Missing invoice_id">> ELSE <<>>)
    \o (IF i.customer_id = "" THEN <<"Missing customer_id">> ELSE <<>>)
    \o (IF i.items = None \/ i.items = Some(<<>>)
        THEN <<"Invoice must contain items">> ELSE <<>>)

\* Mutant of validate: returns at the first problem found.
validate_FirstProblemOnly(i) ==
    IF i = None
    THEN [exc |-> "", problems |-> <<"Invoice is missing">>]
    ELSE IF HeaderProblems(i) # <<>>
    THEN [exc |-> "", problems |-> <<Head(HeaderProblems(i))>>]
    ELSE IF i.items = None
    THEN [exc |-> "TypeError", problems |-> <<>>]
    ELSE [exc |-> "",
          problems |-> IF ItemsProblems(i.items.v) = <<>> THEN <<>>
                       ELSE <<Head(ItemsProblems(i.items.v))>>]

\* _validate: the problems it returns, or the exception it ends with.
\* Iterating inv.items when it is None raises TypeError at line 40.
validate(i) ==
    IF i = None
    THEN [exc |-> "", problems |-> <<"Invoice is missing">>]
    ELSE IF i.items = None
    THEN [exc |-> "TypeError", problems |-> HeaderProblems(i)]
    ELSE [exc |-> "",
          problems |-> HeaderProblems(i) \o ItemsProblems(i.items.v)]

\* ------------------------------------------------------------------ pricing

\* _compute_subtotal_and_fragile_fee
RECURSIVE compute_subtotal_and_fragile_fee(_)
compute_subtotal_and_fragile_fee(items) ==
    IF items = <<>> THEN [subtotal |-> 0, fragile_fee |-> 0]
    ELSE LET it == items[Len(items)]
             r == compute_subtotal_and_fragile_fee(SubSeq(items, 1, Len(items) - 1))
         IN [subtotal |-> r.subtotal + it.unit_price * Unit * it.qty,
             fragile_fee |-> IF it.fragile
                             THEN r.fragile_fee + 5 * Unit * it.qty
                             ELSE r.fragile_fee]

\* Mutant of compute_shipping: the thresholds belong to the bracket below.
compute_shipping_Inclusive(country, sub) ==
    IF country = "TH" THEN (IF sub <= 500 * Unit THEN 60 * Unit ELSE 0)
    ELSE IF country = "JP" THEN (IF sub <= 4000 * Unit THEN 600 * Unit ELSE 0)
    ELSE IF country = "US"
    THEN (IF sub <= 100 * Unit THEN 15 * Unit
          ELSE IF sub <= 300 * Unit THEN 8 * Unit
          ELSE 0)
    ELSE (IF sub <= 200 * Unit THEN 25 * Unit ELSE 0)

\* _compute_shipping
compute_shipping(country, sub) ==
    IF country = "TH" THEN (IF sub < 500 * Unit THEN 60 * Unit ELSE 0)
    ELSE IF country = "JP" THEN (IF sub < 4000 * Unit THEN 600 * Unit ELSE 0)
    ELSE IF country = "US"
    THEN (IF sub < 100 * Unit THEN 15 * Unit
          ELSE IF sub < 300 * Unit THEN 8 * Unit
          ELSE 0)
    ELSE (IF sub < 200 * Unit THEN 25 * Unit ELSE 0)

\* Mutant of compute_membership_discount: the flat discount has no threshold.
compute_membership_discount_AlwaysFlat(membership, sub) ==
    IF membership = "gold" THEN Frac(sub, 3)
    ELSE IF membership = "platinum" THEN Frac(sub, 5)
    ELSE 20 * Unit

\* _compute_membership_discount
compute_membership_discount(membership, sub) ==
    IF membership = "gold" THEN Frac(sub, 3)
    ELSE IF membership = "platinum" THEN Frac(sub, 5)
    ELSE IF sub > 3000 * Unit THEN 20 * Unit ELSE 0

\* Mutant of apply_coupon: the code looked up is not trimmed.
apply_coupon_Untrimmed(coupon, sub, ws) ==
    IF coupon = None \/ Strip(coupon.v) = ""
    THEN [amount |-> 0, warnings |-> ws]
    ELSE LET code == coupon.v
         IN IF code \in DOMAIN coupon_rate
            THEN [amount |-> Frac(sub, coupon_rate[code]), warnings |-> ws]
            ELSE [amount |-> 0, warnings |-> Append(ws, "Unknown coupon")]

\* _apply_coupon: the amount returned and the warnings list after the call.
apply_coupon(coupon, sub, ws) ==
    IF coupon = None \/ Strip(coupon.v) = ""
    THEN [amount |-> 0, warnings |-> ws]
    ELSE LET code == Strip(coupon.v)
         IN IF code \in DOMAIN coupon_rate
            THEN [amount |-> Frac(sub, coupon_rate[code]), warnings |-> ws]
            ELSE [amount |-> 0, warnings |-> Append(ws, "Unknown coupon")]

\* Mutant of compute_tax: the tax base is the undiscounted subtotal.
compute_tax_OnSubtotal(country, sub, disc) ==
    LET base == sub
        rate == IF country = "TH" THEN 7
                ELSE IF country = "JP" THEN 10
                ELSE IF country = "US" THEN 8
                ELSE 5
    IN Frac(base, rate)

\* _compute_tax
compute_tax(country, sub, disc) ==
    LET base == sub - disc
        rate == IF country = "TH" THEN 7
                ELSE IF country = "JP" THEN 10
                ELSE IF country = "US" THEN 8
                ELSE 5
    IN Frac(base, rate)

\* Mutant of assemble_total: the subtotal is left out of the sum and the
\* sum is not clamped.
assemble_total_NoSubtotalNoClamp(sub, ship, fragile, tx, disc) ==
    LET t == ship + fragile + tx - disc
    IN [total |-> t, clamped |-> FALSE]

\* compute_total, lines 65-67: the sum and its clamp.
assemble_total(sub, ship, fragile, tx, disc) ==
    LET t == sub + ship + fragile + tx - disc
    IN [total |-> IF t < 0 THEN 0 ELSE t, clamped |-> t < 0]

\* Mutant of upgrade_warning: the threshold is inclusive.
upgrade_warning_Inclusive(sub, membership, ws) ==
    IF sub >= 10000 * Unit /\ membership \notin {"gold", "platinum"}
    THEN Append(ws, "Consider membership upgrade")
    ELSE ws

\* compute_total, lines 69-70.
upgrade_warning(sub, membership, ws) ==
    IF sub > 10000 * Unit /\ membership \notin {"gold", "platinum"}
    THEN Append(ws, "Consider membership upgrade")
    ELSE ws

\* ------------------------------------------------------------------ inputs

\* The largest number of line items of an enumerated invoice.
MaxItems == 2

Countries == {"TH", "JP", "US", "DE", "us"}
Memberships == {"gold", "platinum", "regular"}
Coupons == {None, Some(""), Some("  "), Some("VIP20"), Some(" VIP20\t"),
            Some("WELCOME10"), Some("\tSTUDENT5\n"), Some("BOGUS"),
            Some(" BOGUS "), Some("vip20")}
Prices == {0, 1, 99, 100, 199, 300, 499, 500, 3000, 3999, 4000, 5000}
Qtys == {1, 2}

\* Valid line items: the first item of an invoice, and the items after it.
FirstItems == {LineItem("A1", "book", p, q, f) :
                  p \in Prices, q \in Qtys, f \in BOOLEAN}
MoreItems == {LineItem("F1", "food", 1, 1, TRUE),
              LineItem("G1", "other", 3000, 1, FALSE)}

\* Line items with invalid fields, and the items after them.
BadFirstItems == {LineItem(s, c, p, q, FALSE) :
                     s \in {"", "A1"}, c \in {"book", "toy"},
                     p \in {-1, 100}, q \in {-1, 0, 1}}
BadMoreItems == {LineItem("B2", "electronics", 1, 1, FALSE),
                 LineItem("", "toy", -1, 0, FALSE),
                 LineItem("C3", "toy", 5, -1, TRUE)}

\* The item lists <<first>> \o rest with rest of at most n items.
RECURSIVE Tails(_, _)
Tails(pool, n) ==
    IF n = 0 THEN {<<>>}
    ELSE {<<>>} \cup {<<it>> \o t : it \in pool, t \in Tails(pool, n - 1)}

ItemLists(first, more) ==
    {<<it>> \o t : it \in first, t \in Tails(more, MaxItems - 1)}

\* Invoices that pass validation.
PricedInvoices(countries, coupons) ==
    {Invoice("INV-1", "CUST-1", c, m, k, Some(l)) :
        c \in countries, m \in Memberships, k \in coupons,
        l \in ItemLists(FirstItems, MoreItems)}

\* Invoices with missing fields, missing items and invalid items, and the
\* absent invoice.
ProblemInvoices ==
    {None}
    \cup {Invoice(i, c, "US", "regular", None, l) :
             i \in {"", "INV-1"}, c \in {"", "CUST-1"},
             l \in {None, Some(<<>>)}
                   \cup {Some(x) : x \in ItemLists(BadFirstItems, BadMoreItems)}}

\* ------------------------------------------------------------------ actions

InitWith(invoices) ==
    /\ inv \in invoices
    /\ pc = "start"
    /\ exc = ""
    /\ message = ""
    /\ problems = <<>>
    /\ subtotal = 0
    /\ fragile_fee = 0
    /\ shipping = 0
    /\ discount = 0
    /\ coupon_part = 0
    /\ tax = 0
    /\ total = 0
    /\ clamped = FALSE
    /\ warnings = <<>>
    /\ prev = None

Init == InitWith(PricedInvoices(Countries, Coupons) \cup ProblemInvoices)

\* compute_total, lines 52-55: validate, and raise on any problem.
ValidateStep ==
    /\ pc = "start"
    /\ LET r == validate(inv)
       IN /\ warnings' = <<>>
          /\ IF r.exc # ""
             THEN /\ pc' = "raised"
                  /\ exc' = r.exc
                  /\ UNCHANGED <<message, problems>>
             ELSE /\ problems' = r.problems
                  /\ IF r.problems # <<>>
                     THEN /\ pc' = "raised"
                          /\ exc' = "ValueError"
                          /\ message' = Join(r.problems)
                     ELSE /\ pc' = "validated"
                          /\ UNCHANGED <<exc, message>>
    /\ UNCHANGED <<inv, subtotal, fragile_fee, shipping, discount, coupon_part,
                   tax, total, clamped, prev>>

\* line 57
SubtotalStep ==
    /\ pc = "validated"
    /\ LET r == compute_subtotal_and_fragile_fee(inv.items.v)
       IN /\ subtotal' = r.subtotal
          /\ fragile_fee' = r.fragile_fee
    /\ pc' = "subtotal"
    /\ UNCHANGED <<inv, exc, message, problems, shipping, discount, coupon_part,
                   tax, total, clamped, warnings, prev>>

\* line 58
ShippingStep ==
    /\ pc = "subtotal"
    /\ shipping' = compute_shipping(inv.country, subtotal)
    /\ pc' = "shipping"
    /\ UNCHANGED <<inv, exc, message, problems, subtotal, fragile_fee, discount,
                   coupon_part, tax, total, clamped, warnings, prev>>

\* line 60
MembershipStep ==
    /\ pc = "shipping"
    /\ discount' = compute_membership_discount(inv.membership, subtotal)
    /\ pc' = "membership"
    /\ UNCHANGED <<inv, exc, message, problems, subtotal, fragile_fee, shipping,
                   coupon_part, tax, total, clamped, warnings, prev>>

\* Mutant of CouponStep: the coupon is applied to the subtotal less the
\* membership discount.
CouponStep_AfterMembership ==
    /\ pc = "membership"
    /\ LET r == apply_coupon(inv.coupon, subtotal - discount, warnings)
       IN /\ coupon_part' = r.amount
          /\ discount' = discount + r.amount
          /\ warnings' = r.warnings
    /\ pc' = "coupon"
    /\ UNCHANGED <<inv, exc, message, problems, subtotal, fragile_fee, shipping,
                   tax, total, clamped, prev>>

\* line 61
CouponStep ==
    /\ pc = "membership"
    /\ LET r == apply_coupon(inv.coupon, subtotal, warnings)
       IN /\ coupon_part' = r.amount
          /\ discount' = discount + r.amount
          /\ warnings' = r.warnings
    /\ pc' = "coupon"
    /\ UNCHANGED <<inv, exc, message, problems, subtotal, fragile_fee, shipping,
                   tax, total, clamped, prev>>

\* line 63
TaxStep ==
    /\ pc = "coupon"
    /\ tax' = compute_tax(inv.country, subtotal, discount)
    /\ pc' = "tax"
    /\ UNCHANGED <<inv, exc, message, problems, subtotal, fragile_fee, shipping,
                   discount, coupon_part, clamped, total, warnings, prev>>

\* lines 65-72
AssembleStep ==
    /\ pc = "tax"
    /\ LET r == assemble_total(subtotal, shipping, fragile_fee, tax, discount)
       IN /\ total' = r.total
          /\ clamped' = r.clamped
    /\ warnings' = upgrade_warning(subtotal, inv.membership, warnings)
    /\ pc' = "done"
    /\ UNCHANGED <<inv, exc, message, problems, subtotal, fragile_fee, shipping,
                   discount, coupon_part, tax, prev>>

Next ==
    \/ ValidateStep
    \/ SubtotalStep
    \/ ShippingStep
    \/ MembershipStep
    \/ CouponStep
    \/ TaxStep
    \/ AssembleStep

Spec == Init /\ [][Next]_vars

\* ------------------------------------------------------------------ repricing

\* The invoice with item k's unit_price or qty replaced.
WithItem(i, k, it) == [i EXCEPT !.items = Some([i.items.v EXCEPT ![k] = it])]

\* The result of a finished call, kept to compare the next call against.
Result ==
    [subtotal |-> subtotal, fragile_fee |-> fragile_fee, shipping |-> shipping,
     discount |-> discount, tax |-> tax, total |-> total]

\* A second call of compute_total, on the invoice of the finished call with
\* one item's unit_price or qty increased and every other field the same.
\* One repricing per behaviour: the claims compare a call with the one before.
Increase ==
    /\ pc = "done"
    /\ prev = None
    /\ \E k \in 1..Len(inv.items.v) :
         LET it == inv.items.v[k]
         IN \/ \E p \in Prices :
                 /\ p > it.unit_price
                 /\ inv' = WithItem(inv, k, [it EXCEPT !.unit_price = p])
            \/ \E q \in Qtys :
                 /\ q > it.qty
                 /\ inv' = WithItem(inv, k, [it EXCEPT !.qty = q])
    /\ prev' = Result
    /\ pc' = "start"
    /\ exc' = ""
    /\ message' = ""
    /\ problems' = <<>>
    /\ subtotal' = 0
    /\ fragile_fee' = 0
    /\ shipping' = 0
    /\ discount' = 0
    /\ coupon_part' = 0
    /\ tax' = 0
    /\ total' = 0
    /\ clamped' = FALSE
    /\ warnings' = <<>>

InitMono ==
    InitWith(PricedInvoices(Countries, {None, Some("VIP20")})
             \cup {None,
                   Invoice("INV-1", "", "US", "gold", None, None),
                   Invoice("INV-1", "CUST-1", "DE", "gold", None,
                           Some(<<LineItem("A1", "book", 100, -1, FALSE)>>))})

NextMono == Next \/ Increase

SpecMono == InitMono /\ [][NextMono]_vars

\* ------------------------------------------------------------------ claims

Returned == pc = "done"
Raised == pc = "raised"

\* Whether string t occurs in string s.
Contains(s, t) ==
    \E i \in 1..(Len(s) - Len(t) + 1) : SubSeq(s, i, i + Len(t) - 1) = t

\* The number of occurrences of w in the sequence ws.
Count(ws, w) == Cardinality({i \in 1..Len(ws) : ws[i] = w})

\* C2 ---------------------------------------------------------------------
\* The candidate problems of an invoice that is present and has an item
\* list, in the order the claim gives: each with the condition under which
\* it is reported.
RECURSIVE C2_ItemCandidates(_, _)
C2_ItemCandidates(items, k) ==
    IF k > Len(items) THEN <<>>
    ELSE <<[on |-> items[k].sku = "", text |-> "Item sku is missing"],
           [on |-> items[k].qty < 1, text |-> "Invalid qty for " \o items[k].sku],
           [on |-> items[k].unit_price < 0,
            text |-> "Invalid price for " \o items[k].sku],
           [on |-> ~(items[k].category \in {"book", "food", "electronics", "other"}),
            text |-> "Unknown category for " \o items[k].sku]>>
         \o C2_ItemCandidates(items, k + 1)

C2_Candidates(i) ==
    <<[on |-> i.invoice_id = "", text |-> "Missing invoice_id"],
      [on |-> i.customer_id = "", text |-> "Missing customer_id"],
      [on |-> Len(i.items.v) = 0, text |-> "Invoice must contain items"]>>
    \o C2_ItemCandidates(i.items.v, 1)

\* The texts of the candidates that are on, each after the first preceded
\* by "; ".
RECURSIVE C2_Text(_, _, _)
C2_Text(cands, k, acc) ==
    IF k > Len(cands) THEN acc
    ELSE IF ~cands[k].on THEN C2_Text(cands, k + 1, acc)
    ELSE C2_Text(cands, k + 1,
                 IF acc = "" THEN cands[k].text ELSE acc \o "; " \o cands[k].text)

C2_ExpectedMessage(i) ==
    IF i = None THEN "Invoice is missing"
    ELSE C2_Text(C2_Candidates(i), 1, "")

\* C2: once the validator has reported one or more problems for an invoice,
\* compute_total has failed with a validation error whose message is every
\* problem, in the validator's order, joined by "; ", and no total and no
\* warnings were produced.  (The validator reports only for an absent
\* invoice or one whose item list is present.)
C2_AllProblemsJoined ==
    (/\ pc # "start"
     /\ (inv = None \/ inv.items # None)
     /\ C2_ExpectedMessage(inv) # "")
    => /\ Raised
       /\ exc = "ValueError"
       /\ message = C2_ExpectedMessage(inv)
       /\ total = 0
       /\ warnings = <<>>

\* A failure that reports problems of the invoice's fields and of two items.
C2_Witness ==
    /\ Raised
    /\ exc = "ValueError"
    /\ inv # None
    /\ inv.invoice_id = ""
    /\ Len(inv.items.v) = 2
    /\ Len(problems) >= 6
    /\ Contains(message, "Invalid qty for A1; Invalid price for A1")

\* C3 ---------------------------------------------------------------------
\* C3: an invoice with an empty invoice_id, an empty customer_id, or an
\* empty or absent item list fails with a validation error whose message
\* includes the matching problem text; the absent invoice is reported as
\* exactly "Invoice is missing"; no other kind of failure occurs.
C3_MissingFieldsReported ==
    pc # "start" =>
       /\ inv = None => (Raised /\ problems = <<"Invoice is missing">>)
       /\ (inv # None /\ inv.invoice_id = "")
            => (Raised /\ exc = "ValueError"
                /\ Contains(message, "Missing invoice_id"))
       /\ (inv # None /\ inv.customer_id = "")
            => (Raised /\ exc = "ValueError"
                /\ Contains(message, "Missing customer_id"))
       /\ (inv # None /\ (inv.items = None \/ inv.items = Some(<<>>)))
            => (Raised /\ exc = "ValueError"
                /\ Contains(message, "Invoice must contain items"))

\* C4 ---------------------------------------------------------------------
\* C4: the total a successful compute_total returns is never negative.
C4_TotalNeverNegative == Returned => total >= 0

\* A returned total of an invoice with fees, a discount and a tax.
C4_Witness ==
    /\ Returned
    /\ total > 0
    /\ discount > 0
    /\ inv.country = "TH"
    /\ subtotal >= 500 * Unit

\* C5 ---------------------------------------------------------------------
RECURSIVE C5_Sum(_, _, _)
C5_Sum(items, k, fragileOnly) ==
    IF k = 0 THEN 0
    ELSE C5_Sum(items, k - 1, fragileOnly)
         + (IF fragileOnly
            THEN (IF items[k].fragile THEN 5 * items[k].qty ELSE 0)
            ELSE items[k].unit_price * items[k].qty)

C5_Rate(country) ==
    CASE country = "TH" -> 7
      [] country = "JP" -> 10
      [] country = "US" -> 8
      [] OTHER -> 5

C5_Max0(x) == IF x > 0 THEN x ELSE 0

\* C5: the returned total is max(0, subtotal + shipping + fragile_fee + tax
\* - discount), with subtotal the sum of unit_price * qty, fragile_fee the
\* sum of 5 * qty over the fragile items, and tax the country's rate of
\* (subtotal - discount).
C5_TotalFormula ==
    Returned =>
       LET n == Len(inv.items.v)
           s == C5_Sum(inv.items.v, n, FALSE) * Unit
           f == C5_Sum(inv.items.v, n, TRUE) * Unit
           base == s - discount
       IN /\ subtotal = s
          /\ fragile_fee = f
          /\ base % 100 = 0
          /\ tax = (base \div 100) * C5_Rate(inv.country)
          /\ total = C5_Max0(s + shipping + f + tax - discount)

\* A returned total in which every term of the sum is positive.
C5_Witness ==
    /\ Returned
    /\ Len(inv.items.v) = 2
    /\ shipping > 0
    /\ fragile_fee > 0
    /\ discount > 0
    /\ tax > 0
    /\ inv.country = "JP"

\* C6 ---------------------------------------------------------------------
C6_Fee(country, sub) ==
    CASE country = "TH" -> (IF sub >= 500 * Unit THEN 0 ELSE 60 * Unit)
      [] country = "JP" -> (IF sub >= 4000 * Unit THEN 0 ELSE 600 * Unit)
      [] country = "US" -> (IF sub >= 300 * Unit THEN 0
                            ELSE IF sub >= 100 * Unit THEN 8 * Unit
                            ELSE 15 * Unit)
      [] OTHER -> (IF sub >= 200 * Unit THEN 0 ELSE 25 * Unit)

\* C6: the shipping fee is the country's bracket of the subtotal, the
\* thresholds belonging to the bracket above them, and every country other
\* than exactly TH, JP, US is in the default bracket.
C6_ShippingTable ==
    pc \in {"shipping", "membership", "coupon", "tax", "done"}
    => shipping = C6_Fee(inv.country, subtotal)

\* A fee computed at a threshold, for a country that differs from US in
\* case only.
C6_Witness ==
    /\ Returned
    /\ inv.country = "us"
    /\ subtotal = 200 * Unit
    /\ shipping = 0

\* The fees at the other thresholds.
C6_WitnessUS ==
    /\ Returned
    /\ inv.country = "US"
    /\ subtotal = 100 * Unit
    /\ shipping = 8 * Unit

\* C7 ---------------------------------------------------------------------
\* The whitespace that may surround a coupon code.
Padding == {"", " ", "  ", "\t", "\n"}

\* The rate, in percent, of the table's code that the coupon is once its
\* surrounding whitespace is removed; 0 when it is no such code or absent.
KnownRate(coupon) ==
    IF coupon = None THEN 0
    ELSE IF \E l \in Padding, r \in Padding : coupon.v = l \o "WELCOME10" \o r
    THEN 10
    ELSE IF \E l \in Padding, r \in Padding : coupon.v = l \o "VIP20" \o r
    THEN 20
    ELSE IF \E l \in Padding, r \in Padding : coupon.v = l \o "STUDENT5" \o r
    THEN 5
    ELSE 0

C7_Membership(membership, sub) ==
    CASE membership = "gold" -> 3 * (sub \div 100)
      [] membership = "platinum" -> 5 * (sub \div 100)
      [] OTHER -> (IF sub > 3000 * Unit THEN 20 * Unit ELSE 0)

\* C7: the discount is the membership discount plus the coupon discount,
\* each computed on the undiscounted subtotal, and their sum is not capped.
C7_DiscountIsSum ==
    pc \in {"coupon", "tax", "done"}
    => /\ subtotal % 100 = 0
       /\ discount = C7_Membership(inv.membership, subtotal)
                     + KnownRate(inv.coupon) * (subtotal \div 100)

\* A discount with a percentage membership part and a coupon part.
C7_Witness ==
    /\ Returned
    /\ inv.membership = "gold"
    /\ inv.coupon = Some("WELCOME10")
    /\ subtotal = 1000 * Unit
    /\ discount = 130 * Unit

\* A discount with a flat membership part and a coupon part.
C7_WitnessFlat ==
    /\ Returned
    /\ inv.membership = "regular"
    /\ inv.coupon = Some("VIP20")
    /\ subtotal > 3000 * Unit
    /\ discount = 20 * Unit + 20 * (subtotal \div 100)

\* C8 ---------------------------------------------------------------------
\* Whether the string has no character other than whitespace.
Blank(str) == \A i \in 1..Len(str) : SubSeq(str, i, i) \in {" ", "\t", "\n"}

UnknownCouponWarnings == Count(warnings, "Unknown coupon")

\* C8: a known code, with or without surrounding whitespace, yields its
\* rate of the subtotal and no warning; an absent or blank coupon yields
\* zero and no warning; any other coupon yields zero and exactly one
\* "Unknown coupon" warning.
C8_CouponHandling ==
    pc \in {"coupon", "tax", "done"}
    => IF KnownRate(inv.coupon) > 0
       THEN /\ coupon_part = KnownRate(inv.coupon) * (subtotal \div 100)
            /\ UnknownCouponWarnings = 0
       ELSE IF inv.coupon = None \/ Blank(inv.coupon.v)
       THEN /\ coupon_part = 0
            /\ UnknownCouponWarnings = 0
       ELSE /\ coupon_part = 0
            /\ UnknownCouponWarnings = 1

\* A known code surrounded by whitespace that earned its discount.
C8_Witness ==
    /\ Returned
    /\ inv.coupon = Some(" VIP20\t")
    /\ subtotal = 500 * Unit
    /\ coupon_part = 100 * Unit
    /\ warnings = <<>>

\* An unrecognised code.
C8_WitnessUnknown ==
    /\ Returned
    /\ inv.coupon = Some("vip20")
    /\ subtotal > 0
    /\ coupon_part = 0
    /\ warnings = <<"Unknown coupon">>

\* C9 ---------------------------------------------------------------------
\* C9: the returned warnings hold "Consider membership upgrade" exactly when
\* subtotal > 10000 and the membership is neither gold nor platinum; they
\* hold nothing but at most one "Unknown coupon" followed by at most one
\* "Consider membership upgrade".
C9_Warnings ==
    Returned =>
       /\ (Count(warnings, "Consider membership upgrade") > 0)
            <=> (subtotal > 10000 * Unit
                 /\ inv.membership # "gold" /\ inv.membership # "platinum")
       /\ warnings \in {<<>>, <<"Unknown coupon">>,
                        <<"Consider membership upgrade">>,
                        <<"Unknown coupon", "Consider membership upgrade">>}

\* Both warnings, in order.
C9_Witness ==
    /\ Returned
    /\ warnings = <<"Unknown coupon", "Consider membership upgrade">>

\* No upgrade warning at a subtotal of exactly 10000.
C9_WitnessBoundary ==
    /\ Returned
    /\ subtotal = 10000 * Unit
    /\ inv.membership = "regular"
    /\ warnings = <<>>

Repriced == Returned /\ prev # None

\* Whether the flat membership discount applies.
FlatDiscount(membership, sub) ==
    membership \notin {"gold", "platinum"} /\ sub > 3000 * Unit

\* C1 as claimed: after one unit_price or qty is increased, neither the
\* subtotal nor the returned total is below that of the original invoice.
C1_TotalMonotone ==
    Repriced => (subtotal >= prev.subtotal /\ total >= prev.total)

\* C1 as amended: the subtotal is not below the original's; the total is not
\* below the original's when the shipping fee is the same for both and the
\* flat membership discount applies to both or to neither.
C1_MonotoneWithinBracket ==
    Repriced =>
       /\ subtotal >= prev.subtotal
       /\ (/\ shipping = prev.shipping
           /\ FlatDiscount(inv.membership, subtotal)
                = FlatDiscount(inv.membership, prev.subtotal))
          => total >= prev.total

\* An increase within one shipping bracket that raised the total.
C1_Witness ==
    /\ Repriced
    /\ subtotal > prev.subtotal
    /\ shipping = prev.shipping
    /\ shipping > 0
    /\ total > prev.total

====
